---- MODULE Spec2Model ----
(***************************************************************************)
(* A model of the jobly data-access layer: the partial-update fragment     *)
(* builder (helpers/sql.js), the Company model (models/company.js), the    *)
(* Job model (models/job.js) and the job listing route (routes/jobs.js),   *)
(* over a relational store holding the companies and jobs tables.          *)
(*                                                                         *)
(* Representation.                                                         *)
(*  - A JavaScript object is the sequence of its <<key, value>> pairs in   *)
(*    Object.keys order; keys are distinct.                                *)
(*  - SQL text built at run time is a sequence of lexical pieces: a word   *)
(*    W(s) of identifier characters, the whitespace piece Sp, punctuation  *)
(*    Pn(s), a quoted identifier Quoted(col), a placeholder Param(n), or a *)
(*    stretch Tx(s) of constant template text.  String concatenation is \o *)
(*    on these sequences; the store's lexer (Lex) reads adjacent words as  *)
(*    one token, as adjacent identifier characters are one identifier.     *)
(*  - Statements whose text is a constant of the source are named by a     *)
(*    string (for example "company.insert") and given their SQL meaning by *)
(*    an operator of this module.                                          *)
(*  - Text that is matched by ILIKE or sorted by ORDER BY (company name,   *)
(*    job title) is a tuple of one-character strings.                      *)
(*  - An optional key of a JavaScript object and a nullable value of a     *)
(*    joined row are Some(v), or None when undefined or NULL.              *)
(***************************************************************************)
EXTENDS Integers, Sequences, FiniteSets, TLC

VARIABLES
  companies,   \* the rows of table companies
  jobs,        \* the rows of table jobs
  nextId,      \* the next value of the jobs.id serial
  fkOnDelete,  \* what the jobs -> companies foreign key does on delete
  inflight,    \* per caller: the Company.create call awaiting its insert
  last         \* the most recently completed call and what it produced

vars == <<companies, jobs, nextId, fkOnDelete, inflight, last>>

store == <<companies, jobs, nextId>>

(***************************************************************************)
(* Bounds of the model.                                                    *)
(***************************************************************************)
MaxCallers == 2   \* concurrent callers of Company.create
MaxJobs == 2      \* job rows ever inserted in one behaviour
MaxPayload == 2   \* keys in an update payload of Company.update / Job.update
MaxSqlKeys == 3   \* keys in a payload handed to sqlForPartialUpdate directly

(***************************************************************************)
(* Sequences and JavaScript values.                                        *)
(***************************************************************************)
Range(s) == {s[i] : i \in 1..Len(s)}

\* All sequences over S without repetition, of length lo..hi.
DistinctSeqs(S, lo, hi) ==
  UNION {{s \in [1..n -> S] : \A i, j \in 1..n : i # j => s[i] # s[j]} : n \in lo..hi}

\* Object.keys(obj) and Object.values(obj): the same iteration order.
ObjectKeys(obj) == [i \in 1..Len(obj) |-> obj[i][1]]
ObjectValues(obj) == [i \in 1..Len(obj) |-> obj[i][2]]
HasKey(obj, k) == \E i \in 1..Len(obj) : obj[i][1] = k
\* obj[k] for a key the object holds.
Prop(obj, k) == obj[CHOOSE i \in 1..Len(obj) : obj[i][1] = k][2]

\* JavaScript truthiness of a column-name string: "" is falsy.
TruthyStr(s) == s # ""
\* JavaScript truthiness of a text value (tuple of characters): "" is falsy.
TruthyText(t) == t # <<>>

(***************************************************************************)
(* Optional and nullable values: a key absent from a JavaScript object     *)
(* (undefined) and an SQL NULL are None, a value v is Some(v).             *)
(***************************************************************************)
None == <<>>
Some(v) == <<v>>
IsSome(o) == o # <<>>
Val(o) == o[1]

(***************************************************************************)
(* SQL text as lexical pieces.                                             *)
(***************************************************************************)
W(s) == [kind |-> "word", text |-> s, n |-> 0]
Sp == [kind |-> "space", text |-> " ", n |-> 0]
Pn(s) == [kind |-> "punct", text |-> s, n |-> 0]
Quoted(col) == [kind |-> "quoted", text |-> col, n |-> 0]
Param(n) == [kind |-> "param", text |-> "$", n |-> n]
\* A stretch of constant template text that starts and ends at token
\* boundaries (the templates set it off by whitespace): one unit to the lexer.
Tx(s) == [kind |-> "text", text |-> s, n |-> 0]

RECURSIVE Join(_, _)
\* Array.prototype.join: the parts with sep between consecutive parts.
Join(parts, sep) ==
  IF parts = <<>> THEN <<>>
  ELSE IF Len(parts) = 1 THEN parts[1]
  ELSE parts[1] \o sep \o Join(Tail(parts), sep)

RECURSIVE Lex(_)
\* The store's lexer: whitespace separates tokens and is dropped; adjacent
\* words are the characters of one identifier token.
Lex(text) ==
  IF text = <<>> THEN <<>>
  ELSE IF text[1].kind = "space" THEN Lex(Tail(text))
  ELSE IF Len(text) >= 2 /\ text[1].kind = "word" /\ text[2].kind = "word"
       THEN Lex(<<W(text[1].text \o text[2].text)>> \o SubSeq(text, 3, Len(text)))
  ELSE <<text[1]>> \o Lex(Tail(text))

\* A run of words separated by single spaces, e.g. Words(<<"ORDER", "BY">>).
Words(ws) == Join([i \in 1..Len(ws) |-> <<W(ws[i])>>], <<Sp>>)

(***************************************************************************)
(* helpers/sql.js: sqlForPartialUpdate.                                    *)
(***************************************************************************)
\* A plausible slip: the translation table is not consulted.
SqlColumnNoTable(jsToSql, colName) == colName

\* jsToSql[colName] || colName
SqlColumn(jsToSql, colName) ==
  IF HasKey(jsToSql, colName) /\ TruthyStr(Prop(jsToSql, colName))
  THEN Prop(jsToSql, colName)
  ELSE colName

\* One element of cols: `"<col>"=$<idx + 1>`, idx the 0-based map index.
SqlClause(jsToSql, colName, idx) ==
  <<Quoted(SqlColumn(jsToSql, colName)), Pn("="), Param(idx + 1)>>

\* The function: an exception (err set) or {setCols, values}.
sqlForPartialUpdate(dataToUpdate, jsToSql) ==
  LET keys == ObjectKeys(dataToUpdate)
      cols == [i \in 1..Len(keys) |-> SqlClause(jsToSql, keys[i], i - 1)]
  IN IF Len(keys) = 0
     THEN [err |-> "BadRequestError", setCols |-> <<>>, values |-> <<>>]
     ELSE [err |-> "", setCols |-> Join(cols, <<Pn(","), Sp>>),
           values |-> ObjectValues(dataToUpdate)]

(***************************************************************************)
(* A completed call: what was called, how it ended, what it returned and   *)
(* the statements it sent to the store, in order.                          *)
(***************************************************************************)
Response(op, args, outcome, result, queries) ==
  [op |-> op, args |-> args, outcome |-> outcome, result |-> result,
   queries |-> queries]

NoCall == Response("none", <<>>, "ok", <<>>, <<>>)

Query(stmt, params) == [stmt |-> stmt, params |-> params]

(***************************************************************************)
(* The store: tables companies(handle, name, description, num_employees,   *)
(* logo_url) and jobs(id, title, salary, equity, company_handle).          *)
(* companies.handle is unique, jobs.id is a serial, jobs.company_handle    *)
(* references companies.                                                   *)
(***************************************************************************)
Perms(S) == DistinctSeqs(S, Cardinality(S), Cardinality(S))

CompanyRow(params) ==
  [handle |-> params[1], name |-> params[2], description |-> params[3],
   num_employees |-> params[4], logo_url |-> params[5]]

\* RETURNING / SELECT handle, name, description,
\*   num_employees AS "numEmployees", logo_url AS "logoUrl"
CompanyOut(c) ==
  [handle |-> c.handle, name |-> c.name, description |-> c.description,
   numEmployees |-> c.num_employees, logoUrl |-> c.logo_url]

\* RETURNING / SELECT id, title, salary, equity, company_handle AS "companyHandle"
JobOut(j) ==
  [id |-> j.id, title |-> j.title, salary |-> j.salary, equity |-> j.equity,
   companyHandle |-> j.company_handle]

HasCompany(h) == \E c \in companies : c.handle = h
CompanyOf(h) == CHOOSE c \in companies : c.handle = h
JobsOf(h) == {j \in jobs : j.company_handle = h}

\* SELECT handle FROM companies WHERE handle = $1
SelectCompanyHandle(params) ==
  LET found == {c \in companies : c.handle = params[1]}
  IN CHOOSE rows \in Perms({[handle |-> c.handle] : c \in found}) : TRUE

\* The uniqueness constraint on companies.handle: an insert of a handle that
\* has a row is refused.
HandleTaken(h) == \E c \in companies : c.handle = h

\* The foreign key of jobs.company_handle: a job names a stored company.
ReferencesCompany(h) == \E c \in companies : c.handle = h

\* The foreign key on the delete of a company: its jobs go with it (cascade)
\* or, while it has jobs, the delete is refused (restrict).
DeleteRefused(h) ==
  fkOnDelete = "restrict" /\ \E j \in jobs : j.company_handle = h

\* INSERT INTO companies (...) VALUES ($1, $2, $3, $4, $5) RETURNING ...
InsertCompany(params) ==
  IF HandleTaken(params[1])
  THEN [err |-> "unique_violation", rows |-> <<>>, companies |-> companies]
  ELSE [err |-> "", rows |-> <<CompanyOut(CompanyRow(params))>>,
        companies |-> companies \cup {CompanyRow(params)}]

\* The j side of one row of `companies c LEFT JOIN jobs j`, as
\* json_build_object('id', j.id, 'title', j.title, 'salary', j.salary,
\* 'equity', j.equity) renders it.
JobJson(j) ==
  [id |-> Some(j.id), title |-> Some(j.title), salary |-> Some(j.salary),
   equity |-> Some(j.equity)]

\* The object built from the all-NULL j side of an unmatched company row.
NullJobJson == [id |-> None, title |-> None, salary |-> None, equity |-> None]

\* LEFT JOIN jobs j ON c.handle = j.company_handle, for the company h:
\* one row per matching job, and one row with a NULL j side when none matches.
LeftJoinJobs(h) ==
  IF JobsOf(h) = {} THEN {NullJobJson} ELSE {JobJson(j) : j \in JobsOf(h)}

\* The rows Company.get's query can return: json_agg gathers the joined rows
\* of the group in an order the statement does not fix.
SelectCompanyWithJobs(params) ==
  IF ~HasCompany(params[1]) THEN {<<>>}
  ELSE {<<[company |-> CompanyOut(CompanyOf(params[1])), jobs |-> agg]>> :
          agg \in Perms(LeftJoinJobs(params[1]))}

\* A plausible slip: the row is reported but not deleted.
DeleteCompanyKeepsRow(params) ==
  IF ~HasCompany(params[1])
  THEN [err |-> "", rows |-> <<>>, companies |-> companies, jobs |-> jobs]
  ELSE [err |-> "", rows |-> <<[handle |-> params[1]]>>,
        companies |-> companies, jobs |-> jobs]

\* DELETE FROM companies WHERE handle = $1 RETURNING handle
DeleteCompany(params) ==
  IF ~HasCompany(params[1])
  THEN [err |-> "", rows |-> <<>>, companies |-> companies, jobs |-> jobs]
  ELSE IF DeleteRefused(params[1])
  THEN [err |-> "foreign_key_violation", rows |-> <<>>,
        companies |-> companies, jobs |-> jobs]
  ELSE [err |-> "", rows |-> <<[handle |-> params[1]]>>,
        companies |-> {c \in companies : c.handle # params[1]},
        jobs |-> jobs \ JobsOf(params[1])]

\* INSERT INTO jobs (title, salary, equity, company_handle)
\* VALUES ($1, $2, $3, $4) RETURNING ...; the serial is consumed either way.
InsertJob(params) ==
  LET row == [id |-> nextId, title |-> params[1], salary |-> params[2],
              equity |-> params[3], company_handle |-> params[4]]
  IN IF ~ReferencesCompany(params[4])
     THEN [err |-> "foreign_key_violation", rows |-> <<>>, jobs |-> jobs]
     ELSE [err |-> "", rows |-> <<JobOut(row)>>, jobs |-> jobs \cup {row}]

\* DELETE FROM jobs WHERE id = $1 RETURNING id
DeleteJob(params) ==
  LET found == {j \in jobs : j.id = params[1]}
  IN [rows |-> (CHOOSE rows \in Perms({[id |-> j.id] : j \in found}) : TRUE),
      jobs |-> jobs \ found]

(***************************************************************************)
(* Inputs.                                                                 *)
(***************************************************************************)
Callers == 1..MaxCallers
Handles == {"acme", "bolt"}
JobIds == 1..(MaxJobs + 1)

NameAcme == <<"A", "c", "m", "e">>
NameBolt == <<"B", "o", "l", "t">>
TitleDev == <<"D", "e", "v">>
TitleOps == <<"o", "p", "s">>

\* { handle, name, description, numEmployees, logoUrl }
\* Callers of "acme" differ in the data they send, so that which of them
\* stored the row shows in the row.
CompanyInputs ==
  [handle : {"acme"}, name : {NameAcme}, description : {"d1"},
   numEmployees : {10, 20}, logoUrl : {"u1"}]
  \cup [handle : {"bolt"}, name : {NameBolt}, description : {"d1"},
        numEmployees : {20}, logoUrl : {"u1"}]

\* { title, salary, equity, companyHandle }; equity in thousandths.
JobInputs ==
  [title : {TitleDev}, salary : {100}, equity : {0}, companyHandle : Handles]

(***************************************************************************)
(* models/company.js: Company.create, two round trips to the store.        *)
(***************************************************************************)
\* A plausible slip: the duplicate check never fires.
DuplicateFoundNever(rows) == FALSE

\* if (duplicateCheck.rows[0])
DuplicateFound(rows) == Len(rows) > 0

CreateQueries(data) ==
  <<Query("company.selectHandle", <<data.handle>>),
    Query("company.insert", <<data.handle, data.name, data.description,
                              data.numEmployees, data.logoUrl>>)>>

\* The call up to its second await: the duplicate check and its throw.
CreateCheck(p, data) ==
  /\ inflight[p] = None
  /\ LET q == CreateQueries(data)[1]
         duplicateCheck == SelectCompanyHandle(q.params)
     IN IF DuplicateFound(duplicateCheck)
        THEN /\ last' = Response("Company.create", data, "BadRequestError",
                                 None, <<q>>)
             /\ inflight' = inflight
        ELSE /\ inflight' = [inflight EXCEPT ![p] = Some(data)]
             /\ last' = last
  /\ UNCHANGED <<companies, jobs, nextId, fkOnDelete>>

\* The insert and the return; an error of the store is not caught.
CreateInsert(p) ==
  /\ inflight[p] # None
  /\ LET data == Val(inflight[p])
         qs == CreateQueries(data)
         result == InsertCompany(qs[2].params)
     IN /\ companies' = result.companies
        /\ last' = IF result.err = ""
                   THEN Response("Company.create", data, "ok",
                                 Some(result.rows[1]), qs)
                   ELSE Response("Company.create", data, "StoreError",
                                 None, qs)
  /\ inflight' = [inflight EXCEPT ![p] = None]
  /\ UNCHANGED <<jobs, nextId, fkOnDelete>>

(***************************************************************************)
(* models/company.js: Company.get and Company.remove.                      *)
(***************************************************************************)
CompanyGet(handle) ==
  /\ \E rows \in SelectCompanyWithJobs(<<handle>>) :
       last' = IF Len(rows) = 0
               THEN Response("Company.get", handle, "NotFoundError", None,
                             <<Query("company.get", <<handle>>)>>)
               ELSE Response("Company.get", handle, "ok", Some(rows[1]),
                             <<Query("company.get", <<handle>>)>>)
  /\ UNCHANGED <<companies, jobs, nextId, fkOnDelete, inflight>>

\* How Company.get(handle) would end in the current state.
GetOutcome(handle) ==
  IF \A rows \in SelectCompanyWithJobs(<<handle>>) : Len(rows) = 0
  THEN "NotFoundError" ELSE "ok"

CompanyRemove(handle) ==
  /\ LET result == DeleteCompany(<<handle>>)
         q == <<Query("company.delete", <<handle>>)>>
     IN /\ companies' = result.companies
        /\ jobs' = result.jobs
        /\ last' = IF result.err # ""
                   THEN Response("Company.remove", handle, "StoreError", None, q)
                   ELSE IF Len(result.rows) = 0
                   THEN Response("Company.remove", handle, "NotFoundError", None, q)
                   ELSE Response("Company.remove", handle, "ok", None, q)
  /\ UNCHANGED <<nextId, fkOnDelete, inflight>>

(***************************************************************************)
(* models/job.js: Job.create and Job.remove.                               *)
(***************************************************************************)
JobCreate(data) ==
  /\ nextId <= MaxJobs
  /\ LET q == Query("job.insert", <<data.title, data.salary, data.equity,
                                    data.companyHandle>>)
         result == InsertJob(q.params)
     IN /\ jobs' = result.jobs
        /\ nextId' = nextId + 1
        /\ last' = IF result.err = ""
                   THEN Response("Job.create", data, "ok", Some(result.rows[1]), <<q>>)
                   ELSE Response("Job.create", data, "StoreError", None, <<q>>)
  /\ UNCHANGED <<companies, fkOnDelete, inflight>>

JobRemove(id) ==
  /\ LET q == Query("job.delete", <<id>>)
         result == DeleteJob(q.params)
     IN /\ jobs' = result.jobs
        /\ last' = IF Len(result.rows) = 0
                   THEN Response("Job.remove", id, "NotFoundError", None, <<q>>)
                   ELSE Response("Job.remove", id, "ok", None, <<q>>)
  /\ UNCHANGED <<companies, nextId, fkOnDelete, inflight>>

(***************************************************************************)
(* The store executing the UPDATE statement Company.update composes.       *)
(***************************************************************************)
CompanyColumns == {"handle", "name", "description", "num_employees", "logo_url"}

\* RETURNING handle, name, description, num_employees AS "numEmployees",
\*           logo_url AS "logoUrl"
ReturningCompany ==
  <<Tx("RETURNING handle, name, description, num_employees AS \"numEmployees\", logo_url AS \"logoUrl\"")>>

RECURSIVE ParseAssignments(_)
\* The SET list: "<col>" = $n { , "<col>" = $n }.
ParseAssignments(toks) ==
  IF Len(toks) < 3 \/ toks[1].kind # "quoted" \/ toks[2] # Pn("=")
     \/ toks[3].kind # "param"
  THEN [ok |-> FALSE, sets |-> <<>>]
  ELSE LET first == [col |-> toks[1].text, n |-> toks[3].n]
       IN IF Len(toks) = 3 THEN [ok |-> TRUE, sets |-> <<first>>]
          ELSE IF toks[4] # Pn(",") THEN [ok |-> FALSE, sets |-> <<>>]
          ELSE LET rest == ParseAssignments(SubSeq(toks, 5, Len(toks)))
               IN [ok |-> rest.ok, sets |-> <<first>> \o rest.sets]

\* UPDATE companies SET <assignments> WHERE handle = $k RETURNING ...:
\* a syntax error, an unknown column or a missing parameter is an error of
\* the store; otherwise the row whose handle is $k gets the assigned columns.
ExecUpdateCompanies(sql, params) ==
  LET toks == Lex(sql)
      tailLen == 4 + Len(Lex(ReturningCompany))
      whereAt == Len(toks) - tailLen + 1
      parsed == IF whereAt >= 4 THEN ParseAssignments(SubSeq(toks, 4, whereAt - 1))
                ELSE [ok |-> FALSE, sets |-> <<>>]
      wellFormed ==
        /\ whereAt >= 4
        /\ SubSeq(toks, 1, 3) = <<W("UPDATE"), W("companies"), W("SET")>>
        /\ SubSeq(toks, whereAt, whereAt + 2) = <<W("WHERE"), W("handle"), Pn("=")>>
        /\ toks[whereAt + 3].kind = "param"
        /\ SubSeq(toks, whereAt + 4, Len(toks)) = Lex(ReturningCompany)
        /\ parsed.ok
        /\ \A i \in 1..Len(parsed.sets) :
             /\ parsed.sets[i].col \in CompanyColumns
             /\ parsed.sets[i].n \in 1..Len(params)
             /\ \A j \in 1..Len(parsed.sets) :
                  i # j => parsed.sets[i].col # parsed.sets[j].col
        /\ toks[whereAt + 3].n \in 1..Len(params)
  IN IF ~wellFormed
     THEN [err |-> "syntax_or_column_error", rows |-> <<>>, companies |-> companies]
     ELSE LET key == params[toks[whereAt + 3].n]
              Assigned(col) == \E i \in 1..Len(parsed.sets) : parsed.sets[i].col = col
              NewValue(col) ==
                params[parsed.sets[CHOOSE i \in 1..Len(parsed.sets) :
                                     parsed.sets[i].col = col].n]
              Updated(c) == [col \in CompanyColumns |->
                               IF Assigned(col) THEN NewValue(col) ELSE c[col]]
          IN IF ~HasCompany(key)
             THEN [err |-> "", rows |-> <<>>, companies |-> companies]
             ELSE IF Assigned("handle") /\ NewValue("handle") # key
                     /\ HandleTaken(NewValue("handle"))
             THEN [err |-> "unique_violation", rows |-> <<>>, companies |-> companies]
             ELSE [err |-> "", rows |-> <<CompanyOut(Updated(CompanyOf(key)))>>,
                   companies |-> (companies \ {CompanyOf(key)})
                                   \cup {Updated(CompanyOf(key))}]

(***************************************************************************)
(* models/company.js: Company.update.                                      *)
(***************************************************************************)
\* { numEmployees: "num_employees", logoUrl: "logo_url" }
CompanyJsToSql ==
  <<<<"numEmployees", "num_employees">>, <<"logoUrl", "logo_url">>>>

\* `UPDATE companies SET ${setCols} WHERE handle = ${handleVarIdx} RETURNING ...`
CompanyUpdateSql(setCols, handleVarIdx) ==
  Words(<<"UPDATE", "companies">>) \o <<Sp>> \o <<W("SET"), Sp>> \o setCols
    \o <<Sp>> \o Words(<<"WHERE", "handle">>) \o <<Sp, Pn("="), Sp>>
    \o <<handleVarIdx>> \o <<Sp>> \o ReturningCompany

CompanyUpdate(handle, data) ==
  /\ LET built == sqlForPartialUpdate(data, CompanyJsToSql)
         handleVarIdx == Param(Len(built.values) + 1)
         q == Query(CompanyUpdateSql(built.setCols, handleVarIdx),
                    built.values \o <<handle>>)
         result == ExecUpdateCompanies(q.stmt, q.params)
         args == [handle |-> handle, data |-> data]
     IN IF built.err # ""
        THEN /\ last' = Response("Company.update", args, built.err, None, <<>>)
             /\ companies' = companies
        ELSE /\ companies' = result.companies
             /\ last' = IF result.err # ""
                        THEN Response("Company.update", args, "StoreError", None, <<q>>)
                        ELSE IF Len(result.rows) = 0
                        THEN Response("Company.update", args, "NotFoundError", None, <<q>>)
                        ELSE Response("Company.update", args, "ok",
                                      Some(result.rows[1]), <<q>>)
  /\ UNCHANGED <<jobs, nextId, fkOnDelete, inflight>>

(***************************************************************************)
(* models/job.js: Job.update.                                              *)
(***************************************************************************)
\* const sqlForPartialUpdate = require("../helpers/sql"): the name is bound to
\* the module's exports object { sqlForPartialUpdate }, which is no function.
JobSqlHelperIsFunction == FALSE

\* { title: "title", salary: "salary", equity: "equity" }
JobJsToSql ==
  <<<<"title", "title">>, <<"salary", "salary">>, <<"equity", "equity">>>>

\* The call of the helper throws TypeError; were the helper callable, the
\* statement is held by querySQL and db.query is handed the undeclared
\* querySql, a ReferenceError raised before any statement is sent.
JobUpdate(id, data) ==
  /\ LET args == [id |-> id, data |-> data]
         built == sqlForPartialUpdate(data, JobJsToSql)
     IN last' = IF ~JobSqlHelperIsFunction
                THEN Response("Job.update", args, "TypeError", None, <<>>)
                ELSE IF built.err # ""
                THEN Response("Job.update", args, built.err, None, <<>>)
                ELSE Response("Job.update", args, "ReferenceError", None, <<>>)
  /\ UNCHANGED <<companies, jobs, nextId, fkOnDelete, inflight>>

(***************************************************************************)
(* Text as the store compares it: ILIKE and ORDER BY.                      *)
(***************************************************************************)
\* The characters in use, in code-point order.
CodeOrder ==
  <<"%", "A", "B", "D", "N", "a", "b", "c", "d", "e", "l", "m", "o", "p", "s",
    "t", "v">>
Code(ch) == CHOOSE i \in 1..Len(CodeOrder) : CodeOrder[i] = ch

Lower(ch) ==
  CASE ch = "A" -> "a" [] ch = "B" -> "b" [] ch = "D" -> "d" [] ch = "N" -> "n"
    [] OTHER -> ch

RECURSIVE Like(_, _)
\* text ILIKE pattern, "%" matching any run of characters.
Like(text, pattern) ==
  IF pattern = <<>> THEN text = <<>>
  ELSE IF pattern[1] = "%"
       THEN Like(text, Tail(pattern)) \/ (text # <<>> /\ Like(Tail(text), pattern))
  ELSE /\ text # <<>>
       /\ Lower(text[1]) = Lower(pattern[1])
       /\ Like(Tail(text), Tail(pattern))

RECURSIVE TextLess(_, _)
TextLess(a, b) ==
  IF b = <<>> THEN FALSE
  ELSE IF a = <<>> THEN TRUE
  ELSE IF a[1] = b[1] THEN TextLess(Tail(a), Tail(b))
  ELSE Code(a[1]) < Code(b[1])

\* ORDER BY name: the orders of S in which no row precedes a smaller one.
OrderedByName(S) ==
  {s \in Perms(S) : \A i, j \in 1..Len(s) : i < j => ~TextLess(s[j].name, s[i].name)}

\* ORDER BY title
OrderedByTitle(S) ==
  {s \in Perms(S) : \A i, j \in 1..Len(s) : i < j => ~TextLess(s[j].title, s[i].title)}

(***************************************************************************)
(* The store executing the SELECT statement Company.findFiltered composes. *)
(***************************************************************************)
\* SELECT handle, name, description, num_employees AS "numEmployees",
\*        logo_url AS "logoUrl" FROM companies
SelectCompaniesHead ==
  <<Tx("SELECT handle, name, description, num_employees AS \"numEmployees\", logo_url AS \"logoUrl\" FROM companies")>>

OrderByName == Words(<<"ORDER", "BY", "name">>)

RECURSIVE ParseConditions(_)
\* <column> <operator> $n { AND <column> <operator> $n }
ParseConditions(toks) ==
  IF Len(toks) < 3 \/ toks[1].kind # "word"
     \/ toks[2] \notin {W("ILIKE"), Pn(">="), Pn("<=")} \/ toks[3].kind # "param"
  THEN [ok |-> FALSE, conds |-> <<>>]
  ELSE LET first == [col |-> toks[1].text, op |-> toks[2].text, n |-> toks[3].n]
       IN IF Len(toks) = 3 THEN [ok |-> TRUE, conds |-> <<first>>]
          ELSE IF toks[4] # W("AND") THEN [ok |-> FALSE, conds |-> <<>>]
          ELSE LET rest == ParseConditions(SubSeq(toks, 5, Len(toks)))
               IN [ok |-> rest.ok, conds |-> <<first>> \o rest.conds]

\* The statement as the store parses it: the select list and FROM companies,
\* then either nothing or WHERE and conditions, then ORDER BY name.
ParseSelectCompanies(sql) ==
  LET toks == Lex(sql)
      head == Lex(SelectCompaniesHead)
      order == Lex(OrderByName)
      midFrom == Len(head) + 1
      midTo == Len(toks) - Len(order)
      framed ==
        /\ Len(toks) >= Len(head) + Len(order)
        /\ SubSeq(toks, 1, Len(head)) = head
        /\ SubSeq(toks, midTo + 1, Len(toks)) = order
      mid == SubSeq(toks, midFrom, midTo)
  IN IF ~framed THEN [ok |-> FALSE, conds |-> <<>>]
     ELSE IF mid = <<>> THEN [ok |-> TRUE, conds |-> <<>>]
     ELSE IF mid[1] # W("WHERE") THEN [ok |-> FALSE, conds |-> <<>>]
     ELSE ParseConditions(Tail(mid))

ConditionHolds(c, cond, params) ==
  CASE cond.op = "ILIKE" -> Like(c[cond.col], params[cond.n])
    [] cond.op = ">=" -> c[cond.col] >= params[cond.n]
    [] cond.op = "<=" -> c[cond.col] <= params[cond.n]

\* The possible answers of the store: an error, or the selected rows in an
\* order ORDER BY name allows.
ExecSelectCompanies(sql, params) ==
  LET parsed == ParseSelectCompanies(sql)
      valid ==
        /\ parsed.ok
        /\ \A i \in 1..Len(parsed.conds) :
             /\ parsed.conds[i].n \in 1..Len(params)
             /\ parsed.conds[i].col \in
                  (IF parsed.conds[i].op = "ILIKE" THEN {"name"} ELSE {"num_employees"})
      selected ==
        {c \in companies :
           \A i \in 1..Len(parsed.conds) : ConditionHolds(c, parsed.conds[i], params)}
  IN IF ~valid THEN {[err |-> "syntax_error", rows |-> <<>>]}
     ELSE {[err |-> "", rows |-> rows] :
             rows \in OrderedByName({CompanyOut(c) : c \in selected})}

(***************************************************************************)
(* models/company.js: Company.findFiltered.                                *)
(***************************************************************************)
\* A plausible slip: the comparison turned around.
RangeInvalidReversed(filters) ==
  /\ IsSome(filters.minEmployees)
  /\ IsSome(filters.maxEmployees)
  /\ Val(filters.minEmployees) < Val(filters.maxEmployees)

\* minEmployees !== undefined && maxEmployees !== undefined
\*   && minEmployees > maxEmployees
RangeInvalid(filters) ==
  /\ IsSome(filters.minEmployees)
  /\ IsSome(filters.maxEmployees)
  /\ Val(filters.minEmployees) > Val(filters.maxEmployees)

\* A plausible slip: the clause is numbered before the value is pushed.
PushClauseBeforeValue(acc, present, value, column, operator) ==
  IF ~present THEN acc
  ELSE [queryParams |-> Append(acc.queryParams, value),
        whereClauses |->
          Append(acc.whereClauses,
                 <<W(column), Sp, operator, Sp, Param(Len(acc.queryParams))>>)]

\* One predicate step: push the value, then push the clause numbered by the
\* length of queryParams.
PushClause(acc, present, value, column, operator) ==
  IF ~present THEN acc
  ELSE LET queryParams == Append(acc.queryParams, value)
       IN [queryParams |-> queryParams,
           whereClauses |->
             Append(acc.whereClauses,
                    <<W(column), Sp, operator, Sp, Param(Len(queryParams))>>)]

\* if (name): an absent name and the empty string produce no clause.
NamePresent(filters) == IsSome(filters.name) /\ TruthyText(Val(filters.name))

\* whereClauses and queryParams after the three predicate steps.
FilterClauses(filters) ==
  LET start == [queryParams |-> <<>>, whereClauses |-> <<>>]
      afterName ==
        PushClause(start, NamePresent(filters),
                   IF NamePresent(filters)
                   THEN <<"%">> \o Val(filters.name) \o <<"%">> ELSE <<>>,
                   "name", W("ILIKE"))
      afterMin ==
        PushClause(afterName, IsSome(filters.minEmployees),
                   IF IsSome(filters.minEmployees) THEN Val(filters.minEmployees) ELSE 0,
                   "num_employees", Pn(">="))
  IN PushClause(afterMin, IsSome(filters.maxEmployees),
                IF IsSome(filters.maxEmployees) THEN Val(filters.maxEmployees) ELSE 0,
                "num_employees", Pn("<="))

\* whereClauses.length > 0 ? "WHERE" + whereClauses.join(" AND ") : ""
WhereClause(whereClauses) ==
  IF Len(whereClauses) > 0
  THEN <<W("WHERE")>> \o Join(whereClauses, <<Sp, W("AND"), Sp>>)
  ELSE <<>>

\* `SELECT ... FROM companies ${whereClause} ORDER BY name`
FindFilteredSql(whereClause) ==
  SelectCompaniesHead \o <<Sp>> \o whereClause \o <<Sp>> \o OrderByName

CompanyFindFiltered(filters) ==
  /\ IF RangeInvalid(filters)
     THEN last' = Response("Company.findFiltered",
                           [filters |-> filters, built |-> None],
                           "BadRequestError", None, <<>>)
     ELSE LET built == FilterClauses(filters)
              q == Query(FindFilteredSql(WhereClause(built.whereClauses)),
                         built.queryParams)
              args == [filters |-> filters, built |-> Some(built)]
          IN \E companiesRes \in ExecSelectCompanies(q.stmt, q.params) :
               last' = IF companiesRes.err # ""
                       THEN Response("Company.findFiltered", args, "StoreError",
                                     None, <<q>>)
                       ELSE Response("Company.findFiltered", args, "ok",
                                     Some(companiesRes.rows), <<q>>)
  /\ UNCHANGED <<companies, jobs, nextId, fkOnDelete, inflight>>

(***************************************************************************)
(* routes/jobs.js: GET /jobs, with models/job.js: Job.findAll.             *)
(***************************************************************************)
\* Unary plus on a query-string value: its number, or NaN.
ToNumber(str) ==
  CASE str = "50" -> [nan |-> FALSE, n |-> 50]
    [] str = "100" -> [nan |-> FALSE, n |-> 100]
    [] OTHER -> [nan |-> TRUE, n |-> 0]

\* if (query.minSalary !== undefined) query.minSalary = +query.minSalary
\* if (query.hasEquity !== undefined) query.hasEquity = query.hasEquity === "true"
ConvertJobQuery(query) ==
  [title |-> query.title,
   minSalary |-> IF IsSome(query.minSalary)
                 THEN Some(ToNumber(Val(query.minSalary))) ELSE None,
   hasEquity |-> IF IsSome(query.hasEquity)
                 THEN Some(Val(query.hasEquity) = "true") ELSE None]

\* jsonschema.validate(query, jobSearchSchema).valid: minSalary, when given,
\* is an integer; title, when given, is not empty.
JobSearchValid(query) ==
  /\ IsSome(query.minSalary) => ~Val(query.minSalary).nan
  /\ IsSome(query.title) => Val(query.title) # <<>>

\* SELECT id, title, salary, equity, company_handle AS "companyHandle"
\* FROM jobs ORDER BY title
SelectAllJobs == OrderedByTitle({JobOut(j) : j \in jobs})

\* Job.findAll(): takes no argument.
JobFindAll == SelectAllJobs

JobsList(rawQuery) ==
  /\ LET query == ConvertJobQuery(rawQuery)
     IN IF ~JobSearchValid(query)
        THEN last' = Response("GET /jobs", query, "BadRequestError", None, <<>>)
        ELSE \E found \in JobFindAll :
               last' = Response("GET /jobs", query, "ok", Some(found),
                                <<Query("job.selectAll", <<>>)>>)
  /\ UNCHANGED <<companies, jobs, nextId, fkOnDelete, inflight>>

(***************************************************************************)
(* Updates and searches over a seeded store.                               *)
(***************************************************************************)
NameNeo == <<"N", "e", "o">>

SeedCompanies ==
  {CompanyRow(<<"acme", NameAcme, "d1", 10, "u1">>),
   CompanyRow(<<"bolt", NameBolt, "d1", 20, "u1">>)}

SeedJobs ==
  {[id |-> 1, title |-> TitleDev, salary |-> 50, equity |-> 0,
    company_handle |-> "acme"],
   [id |-> 2, title |-> TitleOps, salary |-> 100, equity |-> 500,
    company_handle |-> "bolt"]}

\* Update payloads: each field with the one new value a caller sets.
CompanyFields ==
  {<<"name", NameNeo>>, <<"numEmployees", 50>>, <<"logoUrl", "u2">>}
CompanyPayloads == DistinctSeqs(CompanyFields, 0, MaxPayload)

JobFields == {<<"title", TitleOps>>, <<"salary", 200>>, <<"equity", 500>>}
JobPayloads == DistinctSeqs(JobFields, 0, MaxPayload)

\* { name, minEmployees, maxEmployees }, every key optional.
CompanyFilters ==
  [name : {None, Some(<<>>), Some(<<"o", "l">>)},
   minEmployees : {None, Some(0), Some(15)},
   maxEmployees : {None, Some(10), Some(30)}]

\* The query string of GET /jobs: every value a string, every key optional.
JobQueries ==
  [title : {None, Some(<<"d", "e">>)},
   minSalary : {None, Some("100"), Some("abc")},
   hasEquity : {None, Some("true"), Some("false")}]

\* The handles updates name: a stored row and a handle with no row; the row
\* of "bolt" is the other row of the table.
UpdateHandles == {"acme", "zeta"}

InitQuery ==
  /\ companies = SeedCompanies
  /\ jobs = SeedJobs
  /\ nextId = Cardinality(SeedJobs) + 1
  /\ fkOnDelete = "cascade"
  /\ inflight = [p \in Callers |-> None]
  /\ last = NoCall

NextQuery ==
  \/ \E handle \in UpdateHandles, data \in CompanyPayloads :
       CompanyUpdate(handle, data)
  \/ \E id \in JobIds, data \in JobPayloads : JobUpdate(id, data)
  \/ \E filters \in CompanyFilters : CompanyFindFiltered(filters)
  \/ \E rawQuery \in JobQueries : JobsList(rawQuery)

SpecQuery == InitQuery /\ [][NextQuery]_vars

(***************************************************************************)
(* sqlForPartialUpdate applied to payloads and translation tables.         *)
(***************************************************************************)
SqlFields == {<<"firstName", "John">>, <<"lastName", "Doe">>, <<"age", 30>>}
SqlPayloads == DistinctSeqs(SqlFields, 0, MaxSqlKeys)

\* For each key: no entry, a column name, or the empty string.
SqlTableEntries ==
  [firstName : {None, Some("first_name"), Some("")},
   lastName : {None, Some("last_name"), Some("")},
   age : {None, Some("user_age"), Some("")}]

TableOf(e) ==
  (IF IsSome(e.firstName) THEN <<<<"firstName", Val(e.firstName)>>>> ELSE <<>>)
    \o (IF IsSome(e.lastName) THEN <<<<"lastName", Val(e.lastName)>>>> ELSE <<>>)
    \o (IF IsSome(e.age) THEN <<<<"age", Val(e.age)>>>> ELSE <<>>)

SqlCall(dataToUpdate, jsToSql) ==
  /\ LET r == sqlForPartialUpdate(dataToUpdate, jsToSql)
         args == [dataToUpdate |-> dataToUpdate, jsToSql |-> jsToSql]
     IN last' = IF r.err # ""
                THEN Response("sqlForPartialUpdate", args, r.err, None, <<>>)
                ELSE Response("sqlForPartialUpdate", args, "ok",
                              Some([setCols |-> r.setCols, values |-> r.values]),
                              <<>>)
  /\ UNCHANGED <<companies, jobs, nextId, fkOnDelete, inflight>>

NextSql ==
  \E dataToUpdate \in SqlPayloads, e \in SqlTableEntries :
    SqlCall(dataToUpdate, TableOf(e))

SpecSql == InitQuery /\ [][NextSql]_vars

(***************************************************************************)
(* The life cycle of rows: creation, lookup and removal, with concurrent   *)
(* callers of Company.create.  Every other operation is one round trip and *)
(* so one step.                                                            *)
(***************************************************************************)
Init ==
  /\ companies = {}
  /\ jobs = {}
  /\ nextId = 1
  /\ fkOnDelete \in {"cascade", "restrict"}
  /\ inflight = [p \in Callers |-> None]
  /\ last = NoCall

Next ==
  \/ \E p \in Callers, data \in CompanyInputs : CreateCheck(p, data)
  \/ \E p \in Callers : CreateInsert(p)
  \/ \E handle \in Handles : CompanyGet(handle)
  \/ \E handle \in Handles : CompanyRemove(handle)
  \/ \E data \in JobInputs : JobCreate(data)
  \/ \E id \in JobIds : JobRemove(id)

Spec == Init /\ [][Next]_vars

(***************************************************************************)
(* Properties.                                                             *)
(***************************************************************************)
UniqueHandles ==
  \A h \in Handles : Cardinality({c \in companies : c.handle = h}) <= 1

\* The column expected for a key: the table's entry when the key has one
\* (with nonEmptyOnly: when it has a non-empty one), else the key itself.
ExpectedColumn(jsToSql, key, nonEmptyOnly) ==
  IF HasKey(jsToSql, key) /\ (nonEmptyOnly => Prop(jsToSql, key) # "")
  THEN Prop(jsToSql, key)
  ELSE key

\* The fragment of a call on a non-empty payload: n clauses "<col>"=$i and n
\* values in payload order, the clauses joined with ", ", each placeholder
\* 1..n exactly once.
FragmentMatches(nonEmptyOnly) ==
  (last.op = "sqlForPartialUpdate" /\ Len(last.args.dataToUpdate) > 0) =>
    LET payload == last.args.dataToUpdate
        table == last.args.jsToSql
        n == Len(payload)
    IN /\ last.outcome = "ok"
       /\ LET setCols == Val(last.result).setCols
              values == Val(last.result).values
          IN /\ Len(values) = n
             /\ Len(setCols) = 5 * n - 2
             /\ \A i \in 1..n :
                  /\ SubSeq(setCols, 5 * i - 4, 5 * i - 2)
                       = <<Quoted(ExpectedColumn(table, payload[i][1], nonEmptyOnly)),
                            Pn("="), Param(i)>>
                  /\ i < n => SubSeq(setCols, 5 * i - 1, 5 * i) = <<Pn(","), Sp>>
                  /\ values[i] = payload[i][2]
                  /\ Cardinality({k \in 1..Len(setCols) : setCols[k] = Param(i)}) = 1

\* C1 as stated: sqlForPartialUpdate(P, T) on a non-empty P returns len(P)
\* clauses and values in key order, the i-th clause "<col>"=$i with <col> =
\* T[key_i] whenever key_i is in T and key_i otherwise, joined with ", ".
C1_FragmentAsClaimed == FragmentMatches(FALSE)

\* C1 amended: the same, with <col> = T[key_i] only when T[key_i] is a
\* non-empty string; a key that T maps to "" keeps its own name.
C1_FragmentNonEmptyColumn == FragmentMatches(TRUE)

C1_Witness ==
  /\ last.op = "sqlForPartialUpdate"
  /\ last.outcome = "ok"
  /\ Len(last.args.dataToUpdate) = 3
  /\ HasKey(last.args.jsToSql, last.args.dataToUpdate[1][1])
  /\ Prop(last.args.jsToSql, last.args.dataToUpdate[1][1]) # ""
  /\ ~HasKey(last.args.jsToSql, last.args.dataToUpdate[2][1])
  /\ HasKey(last.args.jsToSql, last.args.dataToUpdate[3][1])
  /\ Prop(last.args.jsToSql, last.args.dataToUpdate[3][1]) = ""

\* C2: when two Company.create calls with one handle both pass the existence
\* check before either inserts, at most one row with the handle is stored and
\* the call whose insert the store rejects ends with BadRequestError.
C2_RejectedInsertIsBadRequest ==
  /\ UniqueHandles
  /\ (last.op = "Company.create" /\ Len(last.queries) = 2 /\ last.outcome # "ok")
       => last.outcome = "BadRequestError"

\* C3: Company.get(h) of a stored company returns one jobs entry per job row
\* of h and nothing else: the empty list when h has no job.
C3_JobsListMatchesJobRows ==
  (last.op = "Company.get" /\ last.outcome = "ok") =>
    LET entries == Val(last.result).jobs
    IN /\ Len(entries) = Cardinality(JobsOf(last.args))
       /\ {entries[i].id : i \in 1..Len(entries)}
            = {Some(j.id) : j \in JobsOf(last.args)}

CompanyAttributes == {"name", "description", "numEmployees", "logoUrl"}
JobAttributes == {"title", "salary", "equity"}
HasJob(id) == \E j \in jobs : j.id = id
JobOf(id) == CHOOSE j \in jobs : j.id = id

\* The step updated the company h as the payload says and nothing else.
CompanyUpdatedBy(h, data) ==
  /\ last'.outcome = "ok"
  /\ HasCompany(h)'
  /\ Val(last'.result) = CompanyOut(CompanyOf(h))'
  /\ \A a \in CompanyAttributes :
       CompanyOut(CompanyOf(h))'[a]
         = IF HasKey(data, a) THEN Prop(data, a) ELSE CompanyOut(CompanyOf(h))[a]
  /\ {c \in companies : c.handle # h} = {c \in companies : c.handle # h}'
  /\ Cardinality(companies') = Cardinality(companies)
  /\ jobs' = jobs

\* The step updated the job id as the payload says and nothing else.
JobUpdatedBy(id, data) ==
  /\ last'.outcome = "ok"
  /\ HasJob(id)'
  /\ Val(last'.result) = JobOut(JobOf(id))'
  /\ \A a \in JobAttributes :
       JobOut(JobOf(id))'[a]
         = IF HasKey(data, a) THEN Prop(data, a) ELSE JobOut(JobOf(id))[a]
  /\ JobOf(id)'.company_handle = JobOf(id).company_handle
  /\ {j \in jobs : j.id # id} = {j \in jobs : j.id # id}'
  /\ Cardinality(jobs') = Cardinality(jobs)
  /\ companies' = companies

\* A step that completes a call of op: each update and search is one step
\* and records its call in last.
Completes(op) == last'.op = op

\* The Company half of C4.
CompanyUpdateFrame ==
  [][\A h \in UpdateHandles :
       (/\ Completes("Company.update")
        /\ last'.args.handle = h
        /\ HasCompany(h)
        /\ Len(last'.args.data) > 0)
         => \E data \in CompanyPayloads :
              last'.args.data = data /\ CompanyUpdatedBy(h, data)]_vars

\* C4: for both entity types, update(key, payload) with a non-empty payload
\* on a stored row sets the payload's attributes on that row, returns the
\* row, and changes no other attribute and no other row.
C4_UpdateSetsExactlyThePayload ==
  [][/\ \A h \in UpdateHandles :
          (/\ Completes("Company.update")
           /\ last'.args.handle = h
           /\ HasCompany(h)
           /\ Len(last'.args.data) > 0)
            => \E data \in CompanyPayloads :
                 last'.args.data = data /\ CompanyUpdatedBy(h, data)
     /\ \A id \in JobIds :
          (/\ Completes("Job.update")
           /\ last'.args.id = id
           /\ HasJob(id)
           /\ Len(last'.args.data) > 0)
            => \E data \in JobPayloads :
                 last'.args.data = data /\ JobUpdatedBy(id, data)]_vars

\* C5: Company.create of a handle that has a row ends with BadRequestError
\* after the existence check alone, no insert sent and the store unchanged;
\* no two rows ever share a handle.
C5_DuplicateCreateRejected ==
  /\ []UniqueHandles
  /\ [][\A p \in Callers, data \in CompanyInputs :
          (CreateCheck(p, data) /\ HasCompany(data.handle)) =>
            /\ last'.op = "Company.create"
            /\ last'.args = data
            /\ last'.outcome = "BadRequestError"
            /\ Len(last'.queries) = 1
            /\ last'.queries[1].stmt = "company.selectHandle"
            /\ inflight'[p] = None
            /\ store' = store]_vars

C5_Witness ==
  /\ last.op = "Company.create"
  /\ last.outcome = "BadRequestError"
  /\ HasCompany(last.args.handle)
  /\ CompanyOut(CompanyOf(last.args.handle)) # last.args

\* C6: Company.remove of a handle without a row ends with NotFoundError and
\* changes nothing; after a successful remove of h, Company.get(h) ends with
\* NotFoundError, and goes on doing so until a Company.create inserts h.
C6_RemoveThenNotFound ==
  [][\A h \in Handles :
       /\ (CompanyRemove(h) /\ ~HasCompany(h)) =>
            (last'.outcome = "NotFoundError" /\ store' = store)
       /\ (CompanyRemove(h) /\ last'.outcome = "ok") =>
            GetOutcome(h)' = "NotFoundError"
       /\ (GetOutcome(h) = "NotFoundError" /\ GetOutcome(h)' # "NotFoundError") =>
            /\ \E p \in Callers : CreateInsert(p)
            /\ last'.op = "Company.create"
            /\ last'.outcome = "ok"
            /\ last'.args.handle = h]_vars

C6_Witness ==
  /\ last.op = "Company.remove"
  /\ last.outcome = "ok"
  /\ GetOutcome(last.args) = "NotFoundError"

\* C7: Company.update with an empty payload, and Company.findFiltered with
\* minEmployees > maxEmployees, end with BadRequestError before any statement
\* is sent, the store unchanged.
C7_RejectedBeforeAnyQuery ==
  [][/\ (Completes("Company.update") /\ Len(last'.args.data) = 0) =>
          /\ last'.outcome = "BadRequestError"
          /\ last'.queries = <<>>
          /\ store' = store
     /\ (/\ Completes("Company.findFiltered")
         /\ IsSome(last'.args.filters.minEmployees)
         /\ IsSome(last'.args.filters.maxEmployees)
         /\ Val(last'.args.filters.minEmployees)
              > Val(last'.args.filters.maxEmployees)) =>
          /\ last'.outcome = "BadRequestError"
          /\ last'.queries = <<>>
          /\ store' = store]_vars

C7_Witness ==
  /\ last.op = "Company.update"
  /\ Len(last.args.data) = 0
  /\ last.outcome = "BadRequestError"
  /\ last.queries = <<>>
  /\ HasCompany(last.args.handle)

\* C8: the statement Company.findFiltered sends has no WHERE and no parameter
\* when no predicate produced a clause, and otherwise the token WHERE followed
\* by the clauses joined with AND, so that the store can parse it.
C8_StatementWellFormed ==
  (last.op = "Company.findFiltered" /\ last.outcome # "BadRequestError") =>
    LET q == last.queries[1]
        toks == Lex(q.stmt)
        clauses == Val(last.args.built).whereClauses
        joined == Lex(Join(clauses, <<Sp, W("AND"), Sp>>))
    IN IF Len(clauses) = 0
       THEN /\ \A i \in 1..Len(toks) : toks[i] # W("WHERE")
            /\ q.params = <<>>
            /\ ParseSelectCompanies(q.stmt).ok
       ELSE /\ \E i \in 1..Len(toks) :
                 /\ toks[i] = W("WHERE")
                 /\ SubSeq(toks, i + 1, i + Len(joined)) = joined
            /\ ParseSelectCompanies(q.stmt).ok

\* Whether a listed job meets the filters of the request.
JobMeets(job, query) ==
  /\ IsSome(query.title) =>
       Like(job.title, <<"%">> \o Val(query.title) \o <<"%">>)
  /\ IsSome(query.minSalary) => job.salary >= Val(query.minSalary).n
  /\ (IsSome(query.hasEquity) /\ Val(query.hasEquity)) => job.equity > 0

\* C9: a job listing requested with title, minSalary and hasEquity returns
\* only jobs that meet every filter given.
C9_ListedJobsMeetFilters ==
  (last.op = "GET /jobs" /\ last.outcome = "ok") =>
    \A i \in 1..Len(Val(last.result)) : JobMeets(Val(last.result)[i], last.args)

NameKeyPresent(f) == IsSome(f.name)
NameKeyNonEmpty(f) == IsSome(f.name) /\ Val(f.name) # <<>>

\* The predicate keys expected to produce a clause, in the order name,
\* minEmployees, maxEmployees; with nonEmptyOnly an empty name is left out.
ExpectedPredicates(f, nonEmptyOnly) ==
  (IF (IF nonEmptyOnly THEN NameKeyNonEmpty(f) ELSE NameKeyPresent(f))
   THEN <<"name">> ELSE <<>>)
    \o (IF IsSome(f.minEmployees) THEN <<"minEmployees">> ELSE <<>>)
    \o (IF IsSome(f.maxEmployees) THEN <<"maxEmployees">> ELSE <<>>)

PredicateClause(key, k) ==
  CASE key = "name" -> <<W("name"), Sp, W("ILIKE"), Sp, Param(k)>>
    [] key = "minEmployees" -> <<W("num_employees"), Sp, Pn(">="), Sp, Param(k)>>
    [] key = "maxEmployees" -> <<W("num_employees"), Sp, Pn("<="), Sp, Param(k)>>

PredicateValue(f, key) ==
  IF key = "name" THEN <<"%">> \o Val(f.name) \o <<"%">> ELSE Val(f[key])

ClausesMatch(nonEmptyOnly) ==
  (last.op = "Company.findFiltered" /\ last.outcome # "BadRequestError") =>
    LET f == last.args.filters
        built == Val(last.args.built)
        keys == ExpectedPredicates(f, nonEmptyOnly)
    IN /\ Len(built.whereClauses) = Len(keys)
       /\ Len(built.queryParams) = Len(keys)
       /\ last.queries[1].params = built.queryParams
       /\ \A k \in 1..Len(keys) :
            /\ built.whereClauses[k] = PredicateClause(keys[k], k)
            /\ built.queryParams[k] = PredicateValue(f, keys[k])

\* C10 as stated: one clause and one value for each predicate key present in
\* the payload, in the order name, minEmployees, maxEmployees, the k-th
\* clause on $k, the name bound as %name%, the numbers unchanged.
C10_ClausePerKeyPresent == ClausesMatch(FALSE)

\* C10 amended: the same, where name counts as present only when it is a
\* non-empty string; an empty name produces no clause and no value.
C10_ClausePerNonEmptyKey == ClausesMatch(TRUE)

C10_Witness ==
  /\ last.op = "Company.findFiltered"
  /\ last.outcome # "BadRequestError"
  /\ NameKeyNonEmpty(last.args.filters)
  /\ IsSome(last.args.filters.minEmployees)
  /\ IsSome(last.args.filters.maxEmployees)
  /\ Len(last.queries[1].params) = 3

====
